---------------------------- MODULE Spec2Model ----------------------------
(***************************************************************************)
(* A model of the lunar-image Phase 1 chain: telemetry angle series         *)
(* (parse_spm / parse_oat / interp_angle / fallback_angles), the Minnaert   *)
(* corrector's batch run, and the pipeline that chains correction, albedo    *)
(* normalization and shadow detection (main.run_pipeline).                  *)
(*                                                                         *)
(* Six specifications share this module:                                    *)
(*   SpecSeries - one telemetry file is parsed into a series and queried     *)
(*   SpecGeom   - a constructed corrector resolves one scene's geometry      *)
(*   Spec       - the pipeline from load_config to packaging                 *)
(*   SpecCorrect   - the radiometric arithmetic of process_one on a raster   *)
(*   SpecNormalize - normalize_and_visualize on a reflectance raster         *)
(*   SpecShadow    - run_shadow_detection on one normalized raster           *)
(* Angles are integers (degrees); an interpolated angle is the exact         *)
(* rational num/den, so floating-point rounding is not modelled.            *)
(***************************************************************************)
EXTENDS Integers, Sequences, FiniteSets, TLC

VARIABLES
    \* ---- SpecSeries: one telemetry file, the series built from it, a query
    telemetry,      \* the lines of the .spm / .oat file, in file order
    parser,         \* "none", "spm" or "oat": which parser built the series
    times,          \* the timestamps list the parser returned
    values,         \* the angle list the parser returned
    image_time,     \* the query time handed to interp_angle
    interp,         \* result of interp_angle: [exc, num, den], or NoResult
    \* ---- SpecGeom: a MinnaertCorrector and the geometry of one scene
    spm_file,       \* geometry/<stem>.spm: [exists, lines]
    oat_file,       \* geometry/<stem>.oat: [exists, lines]
    spm_times,      \* self.spm_times
    sunel_vals,     \* self.sunel_vals
    oat_times,      \* self.oat_times
    emis_vals,      \* self.emis_vals
    label,          \* the scene's label file level0/<stem>.xml
    constructed,    \* whether MinnaertCorrector.__init__ has run
    geom,           \* what process_one resolved for the scene
    \* ---- Spec: one run of run_pipeline
    pc,             \* the step of run_pipeline the run has reached
    process_mode,   \* args.process_mode
    original_tif,   \* stem of args.original_tif_name
    crop_name,      \* stem of args.crop_name
    config,         \* config/config.json
    catalog,        \* stems listed in logs/metadata_catalog.csv
    level0,         \* stems with a raster in processed/level0/crops
    meta,           \* self.meta of the corrector: stems with a start_time
    logs_open,      \* whether the corrector's log handle self.logs is open
    log_file,       \* the converter's log handle self.log_file: "none", "open", "closed"
    queue,          \* the scenes the running batch loop has still to visit
    level1,         \* rasters in processed/level1: [ifs, albnorms, masks, partial]
    qc_rows,        \* rows of logs/radiometric_qc.csv, in file order
    error_log,      \* "Error: ..." lines of minnaert_correction.log, in order
    albedo_qc,      \* rows of logs/albedo_qc.csv, in file order
    coverage_log,   \* rows of logs/shadow_coverage.csv, in file order
    attempted,      \* per stage, the scenes whose processing was started
    failed,         \* per stage, the scenes whose processing raised
    failure,        \* the exception that ended the run, if any
    \* ---- SpecCorrect: the arithmetic of process_one on one raster
    dn,             \* the raw raster read from level0, a row of DN values
    corrector,      \* self.dark, self.gain, self.k
    scene_angles,   \* incidence and emission, in degrees
    radiance,       \* arr after the clip of line 165 (<<>> before)
    arr_if,         \* the raster written to <stem>_if.tif (<<>> before)
    \* ---- SpecNormalize: normalize_and_visualize on one raster
    reflectance,    \* the raster read from <stem>_if.tif, a row of pixels
    sigma,          \* config["albedo"]["sigma"]
    arr,            \* the sanitized raster (<<>> before)
    albedo_trend,   \* the floored Gaussian trend (<<>> before)
    arr_norm,       \* the raster written to <stem>_albnorm.tif (<<>> before)
    \* ---- SpecShadow: run_shadow_detection on one scene
    albnorm,        \* the raster read from <stem>_albnorm.tif, pixel -> value
    profile,        \* src.profile: <<height, width>>
    shadow_config,  \* config["shadow"]
    sun_row,        \* the scene's row of metadata_catalog.csv, if any
    seg_pc,         \* the step of the scene's segmentation
    sun_elev,       \* the sun elevation the branch was chosen on
    thresholded,    \* the mask the branch handed to cleanup
    mask,           \* the mask so far: the set of its true pixels
    steps,          \* the steps taken so far, in order
    out_mask,       \* the raster written to <stem>_shadowmask.tif (<<>> before)
    shadow_pct      \* the coverage recorded for the scene

seriesVars == <<telemetry, parser, times, values, image_time, interp>>

geomVars == <<spm_file, oat_file, spm_times, sunel_vals, oat_times, emis_vals,
              label, constructed, geom>>

pipeVars == <<pc, process_mode, original_tif, crop_name, config, catalog, level0, meta,
              logs_open, log_file, queue, level1, qc_rows, error_log, albedo_qc, coverage_log,
              attempted, failed, failure>>

correctVars == <<dn, corrector, scene_angles, radiance, arr_if>>

normalizeVars == <<reflectance, sigma, arr, albedo_trend, arr_norm>>

shadowVars == <<albnorm, profile, shadow_config, sun_row, seg_pc, sun_elev, thresholded,
                mask, steps, out_mask, shadow_pct>>

rasterVars == <<correctVars, normalizeVars, shadowVars>>

vars == <<seriesVars, geomVars, pipeVars, rasterVars>>

-----------------------------------------------------------------------------
(* Text fields of a fixed-width telemetry line.  A field is <<n>> when its   *)
(* text is the decimal numeral of n and <<>> when int()/float() rejects it.  *)

NonNumeric == <<>>
Num(n) == <<n>>
IsNumeric(field) == Len(field) = 1
NumberOf(field) == field[1]

\* Longest telemetry file enumerated.
MaxLines == 3

\* datetime() accepts seconds 0..59 and years 1..9999.
MaxSecond == 59
MaxYear == 9999

\* A line that does not start with "ORBTATTD".
OtherLine == [hdr |-> FALSE, year |-> NonNumeric, second |-> NonNumeric, ang |-> NonNumeric]

\* Lines that start with "ORBTATTD": the year field is text or 19; the seconds
\* field is 10, 20 or the out-of-range 60; the angle field is text, 10 or 40.
\* Month, day, hour and minute are held fixed and valid.
RecordLines ==
    { [hdr |-> TRUE, year |-> NonNumeric, second |-> Num(10), ang |-> a] :
          a \in {NonNumeric, Num(10), Num(40)} }
    \cup
    { [hdr |-> TRUE, year |-> Num(19), second |-> Num(s), ang |-> a] :
          s \in {10, 20, 30, 60}, a \in {NonNumeric, Num(10), Num(40)} }

TelemetryLines == {OtherLine} \cup RecordLines

RECURSIVE SeqsUpTo(_, _)
SeqsUpTo(S, n) ==
    IF n = 0 THEN {<<>>}
    ELSE LET shorter == SeqsUpTo(S, n - 1)
         IN shorter \cup { Append(f, l) : f \in {g \in shorter : Len(g) = n - 1}, l \in S }

TelemetryFiles == SeqsUpTo(TelemetryLines, MaxLines)

\* A naive datetime as a count of seconds, with the fixed fields dropped.
DateTime(year, second) == year * (MaxSecond + 1) + second

\* year = 2000 + int(str(int(field))[-4:]) : the last four digits of a
\* non-negative field.
YearOf(field) == 2000 + (NumberOf(field) % 10000)

\* The try block of a parser on one line: [ok, t, v].  ok is FALSE when any
\* int(), datetime() or float() of the block raises; the angle is parsed
\* before either list is appended to.
ParseRecord(line) ==
    IF ~IsNumeric(line.year) THEN [ok |-> FALSE, t |-> 0, v |-> 0]
    ELSE IF ~IsNumeric(line.second) THEN [ok |-> FALSE, t |-> 0, v |-> 0]
    ELSE IF YearOf(line.year) < 1 \/ YearOf(line.year) > MaxYear
            \/ NumberOf(line.second) < 0 \/ NumberOf(line.second) > MaxSecond
         THEN [ok |-> FALSE, t |-> 0, v |-> 0]
    ELSE IF ~IsNumeric(line.ang) THEN [ok |-> FALSE, t |-> 0, v |-> 0]
    ELSE [ok |-> TRUE,
          t |-> DateTime(YearOf(line.year), NumberOf(line.second)),
          v |-> NumberOf(line.ang)]

\* One iteration of the parser's loop over the file, on the lists so far.
ParseStep(acc, line) ==
    IF ~line.hdr THEN acc
    ELSE LET r == ParseRecord(line)
         IN IF r.ok THEN [times |-> Append(acc.times, r.t), vals |-> Append(acc.vals, r.v)]
            ELSE acc

\* The mutation of the loop whose except clause ends the loop (break) instead
\* of going on to the next line (continue).
RECURSIVE ParseLoopBreaking(_, _)
ParseLoopBreaking(acc, lines) ==
    IF lines = <<>> THEN acc
    ELSE IF Head(lines).hdr /\ ~ParseRecord(Head(lines)).ok THEN acc
    ELSE ParseLoopBreaking(ParseStep(acc, Head(lines)), Tail(lines))

\* for line in f: ... over the lines left, on the lists built so far.
RECURSIVE ParseLoop(_, _)
ParseLoop(acc, lines) ==
    IF lines = <<>> THEN acc
    ELSE ParseLoop(ParseStep(acc, Head(lines)), Tail(lines))

parse_spm(file) == ParseLoop([times |-> <<>>, vals |-> <<>>], file)
parse_oat(file) == ParseLoop([times |-> <<>>, vals |-> <<>>], file)

-----------------------------------------------------------------------------
(* interp_angle.  Indices are Python's (0-based); list access adds one.      *)

\* The mutation of the search that steps past samples equal to x.
RECURSIVE BisectLoopRight(_, _, _, _)
BisectLoopRight(a, x, lo, hi) ==
    IF lo < hi
    THEN LET mid == (lo + hi) \div 2
         IN IF a[mid + 1] <= x THEN BisectLoopRight(a, x, mid + 1, hi)
            ELSE BisectLoopRight(a, x, lo, mid)
    ELSE lo

RECURSIVE BisectLoop(_, _, _, _)
BisectLoop(a, x, lo, hi) ==
    IF lo < hi
    THEN LET mid == (lo + hi) \div 2
         IN IF a[mid + 1] < x THEN BisectLoop(a, x, mid + 1, hi)
            ELSE BisectLoop(a, x, lo, mid)
    ELSE lo

bisect_left(a, x) == BisectLoop(a, x, 0, Len(a))

Raised == [exc |-> TRUE, num |-> 0, den |-> 1]
Angle(v) == [exc |-> FALSE, num |-> v, den |-> 1]
NoResult == [exc |-> FALSE, num |-> 0, den |-> 0]

\* v0 + frac * (v1 - v0) with frac = (image_time - t0) / (t1 - t0), as the
\* exact rational over a positive denominator; a zero t1 - t0 raises.
Lerp(q, t0, t1, v0, v1) ==
    IF t1 = t0 THEN Raised
    ELSE IF t1 > t0
         THEN [exc |-> FALSE, num |-> v0 * (t1 - t0) + (q - t0) * (v1 - v0),
               den |-> t1 - t0]
         ELSE [exc |-> FALSE, num |-> v0 * (t0 - t1) + (t0 - q) * (v1 - v0),
               den |-> t0 - t1]

\* The mutation of interp_angle that interpolates along the last pair instead
\* of clamping past the end of the series.
interp_angle_extrapolating(q, ts, vs) ==
    LET idx == bisect_left(ts, q)
    IN IF idx = 0 THEN (IF Len(vs) = 0 THEN Raised ELSE Angle(vs[1]))
       ELSE IF idx >= Len(ts) /\ Len(ts) < 2 THEN Angle(vs[Len(vs)])
       ELSE LET i == IF idx >= Len(ts) THEN Len(ts) - 1 ELSE idx
            IN Lerp(q, ts[i], ts[i + 1], vs[i], vs[i + 1])

\* The mutation of interp_angle that measures the fraction from t1.
interp_angle_swapped(q, ts, vs) ==
    LET idx == bisect_left(ts, q)
    IN IF idx = 0 THEN (IF Len(vs) = 0 THEN Raised ELSE Angle(vs[1]))
       ELSE IF idx >= Len(ts) THEN Angle(vs[Len(vs)])
       ELSE Lerp(q, ts[idx], ts[idx + 1], vs[idx + 1], vs[idx])

interp_angle(q, ts, vs) ==
    LET idx == bisect_left(ts, q)
    IN IF idx = 0 THEN (IF Len(vs) = 0 THEN Raised ELSE Angle(vs[1]))
       ELSE IF idx >= Len(ts) THEN (IF Len(vs) = 0 THEN Raised ELSE Angle(vs[Len(vs)]))
       ELSE Lerp(q, ts[idx], ts[idx + 1], vs[idx], vs[idx + 1])

\* Acquisition times a metadata row can give (start_time[:19] parsed by
\* strptime): seconds 5, 10, 15, 20 and 35 of the year 2019.
ImageTimes == { DateTime(2019, s) : s \in {5, 10, 15, 20, 35} }

-----------------------------------------------------------------------------
(* fallback_angles and the angle calculation of process_one *)

\* An element of the label: absent, or present with its text.
NoElement == [present |-> FALSE, text |-> NonNumeric]
Element(field) == [present |-> TRUE, text |-> field]

\* Label files: missing, not well-formed XML, or parsed with each of the
\* isda:solar_incidence and isda:sun_elevation elements absent, non-numeric or
\* numeric (incidence 30, elevation 20).
Labels ==
    { [exists |-> FALSE, parses |-> FALSE, solar_incidence |-> NoElement, sun_elevation |-> NoElement],
      [exists |-> TRUE, parses |-> FALSE, solar_incidence |-> NoElement, sun_elevation |-> NoElement] }
    \cup
    { [exists |-> TRUE, parses |-> TRUE, solar_incidence |-> i, sun_elevation |-> e] :
          i \in {NoElement, Element(NonNumeric), Element(Num(30))},
          e \in {NoElement, Element(NonNumeric), Element(Num(20))} }

\* The defaults written into fallback_angles.
DefaultIncidence == 45
DefaultEmission == 10

Pair(inc, emi) == [exc |-> FALSE, incidence |-> inc, emission |-> emi]
PairRaised == [exc |-> TRUE, incidence |-> 0, emission |-> 0]

\* The try block of fallback_angles (lines 63-74): exc when ET.parse or
\* float() raises.
FallbackTry(xml, default_emission) ==
    IF ~xml.parses THEN PairRaised
    ELSE IF xml.solar_incidence.present
         THEN IF IsNumeric(xml.solar_incidence.text)
              THEN Pair(NumberOf(xml.solar_incidence.text), default_emission)
              ELSE PairRaised
    ELSE IF xml.sun_elevation.present
         THEN IF IsNumeric(xml.sun_elevation.text)
              THEN Pair(90 - NumberOf(xml.sun_elevation.text), default_emission)
              ELSE PairRaised
    ELSE Pair(DefaultIncidence, default_emission)

\* The mutation of fallback_angles without its except clause.
fallback_angles_uncaught(xml, default_emission) ==
    IF ~xml.exists THEN Pair(DefaultIncidence, default_emission)
    ELSE FallbackTry(xml, default_emission)

fallback_angles(xml, default_emission) ==
    IF ~xml.exists THEN Pair(DefaultIncidence, default_emission)
    ELSE LET r == FallbackTry(xml, default_emission)
         IN IF r.exc THEN Pair(DefaultIncidence, default_emission) ELSE r

\* Telemetry files of the geometry directory: up to MaxGeomLines lines, each a
\* malformed record or one of two well-formed ones.
MaxGeomLines == 2

GeomLines ==
    { [hdr |-> TRUE, year |-> Num(19), second |-> Num(10), ang |-> NonNumeric],
      [hdr |-> TRUE, year |-> Num(19), second |-> Num(10), ang |-> Num(10)],
      [hdr |-> TRUE, year |-> Num(19), second |-> Num(20), ang |-> Num(40)] }

GeometryFiles ==
    { [exists |-> FALSE, lines |-> <<>>] }
    \cup { [exists |-> TRUE, lines |-> f] : f \in SeqsUpTo(GeomLines, MaxGeomLines) }

\* self.meta.get(stem): <<>> for None, else <<t>>.
SceneTimes == { <<>> } \cup { <<t>> : t \in {DateTime(2019, 5), DateTime(2019, 15), DateTime(2019, 35)} }

Rational(n) == [num |-> n, den |-> 1]
NoGeometry ==
    [status |-> "pending", img_time |-> <<>>, raised |-> FALSE, path |-> "none",
     incidence |-> Rational(0), emission |-> Rational(0), angle_source |-> "none"]

\* The try block of process_one (lines 136-138): both interpolations, or exc.
\* `interrupted` is an exception delivered inside the block from outside
\* interp_angle (the bare except catches every BaseException).
InterpolateBoth(t, interrupted) ==
    LET sun_el == interp_angle(t, spm_times, sunel_vals)
        emission == interp_angle(t, oat_times, emis_vals)
    IN IF interrupted \/ sun_el.exc \/ emission.exc
       THEN [exc |-> TRUE, incidence |-> Rational(0), emission |-> Rational(0)]
       ELSE [exc |-> FALSE,
             incidence |-> [num |-> 90 * sun_el.den - sun_el.num, den |-> sun_el.den],
             emission |-> [num |-> emission.num, den |-> emission.den]]

\* "interpolated_from_spm_oat" if self.spm_times and self.oat_times else
\* "fallback_from_xml" (line 154).
AngleSource == 
    IF spm_times # <<>> /\ oat_times # <<>> THEN "interpolated_from_spm_oat"
    ELSE "fallback_from_xml"

\* process_one up to the angles JSON (lines 128-155) for a scene whose
\* metadata lookup gave t.
ResolvedGeometry(t, interrupted) ==
    IF t = <<>> THEN [NoGeometry EXCEPT !.status = "KeyError"]
    ELSE LET both == spm_times # <<>> /\ oat_times # <<>>
             tried == InterpolateBoth(t[1], interrupted)
             fb == fallback_angles(label, DefaultEmission)
         IN IF both /\ ~tried.exc
            THEN [status |-> "ok", img_time |-> t, raised |-> FALSE, path |-> "interpolated",
                  incidence |-> tried.incidence, emission |-> tried.emission,
                  angle_source |-> AngleSource]
            ELSE IF fb.exc
                 THEN [NoGeometry EXCEPT !.status = "error", !.img_time = t, !.raised = both]
                 ELSE [status |-> "ok", img_time |-> t, raised |-> both, path |-> "fallback",
                       incidence |-> Rational(fb.incidence), emission |-> Rational(fb.emission),
                       angle_source |-> AngleSource]

-----------------------------------------------------------------------------
(* The pipeline: run_pipeline and the three per-scene stages *)

\* Scene stems are numbered 1..MaxScenes.
MaxScenes == 3
Stems == 1..MaxScenes

\* config.json: the file may be missing; the "minnaert", "albedo" and "shadow"
\* sections may lack a key the stage reads ("absent"), hold values in range
\* ("ok"), or hold an out-of-range value (a negative gain, a zero sigma).
ValidConfig == [file |-> TRUE, minnaert |-> "ok", albedo |-> "ok", shadow |-> "ok"]
Configs ==
    { ValidConfig,
      [ValidConfig EXCEPT !.file = FALSE],
      [ValidConfig EXCEPT !.minnaert = "absent"],
      [ValidConfig EXCEPT !.minnaert = "negative_gain"],
      [ValidConfig EXCEPT !.albedo = "absent"],
      [ValidConfig EXCEPT !.albedo = "zero_sigma"],
      [ValidConfig EXCEPT !.shadow = "absent"] }

NoRasters == [ifs |-> {}, albnorms |-> {}, masks |-> {}, partial |-> {}]
NoScenes == [minnaert |-> {}, albedo |-> {}, shadow |-> {}]
NoFailure == [stage |-> "none", scene |-> 0, error |-> "none"]
Failure(stage, scene, error) == [stage |-> stage, scene |-> scene, error |-> error]

\* A file name is the text of its characters' code points.  Scene s is the
\* file whose stem is the numeral of (s+1)/2 when s is odd, and that numeral
\* followed by "0" when s is even: "1", "10", "2", "20", ...  so stems
\* compare, as text, in the order of their numbers.
StemText(s) ==
    IF s % 2 = 1 THEN <<48 + (s + 1) \div 2>> ELSE <<48 + s \div 2, 48>>

\* ".tif" and "_albnorm.tif"
TifSuffix == <<46, 116, 105, 102>>
AlbnormSuffix == <<95, 97, 108, 98, 110, 111, 114, 109>> \o TifSuffix

\* Python's str (and Path) ordering: by code point, a proper prefix first.
RECURSIVE TextLess(_, _)
TextLess(a, b) ==
    IF b = <<>> THEN FALSE
    ELSE IF a = <<>> THEN TRUE
    ELSE IF Head(a) = Head(b) THEN TextLess(Tail(a), Tail(b))
    ELSE Head(a) < Head(b)

NameLess(s, t, suffix) == TextLess(StemText(s) \o suffix, StemText(t) \o suffix)

\* The mutation of sorted() that orders the listing by stem.
RECURSIVE SortedByStem(_, _)
SortedByStem(S, suffix) ==
    IF S = {} THEN <<>>
    ELSE LET m == CHOOSE x \in S : \A y \in S \ {x} : TextLess(StemText(x), StemText(y))
         IN <<m>> \o SortedByStem(S \ {m}, suffix)

\* sorted(dir.glob("*" + suffix)): the files of S in the order of their paths.
RECURSIVE Sorted(_, _)
Sorted(S, suffix) ==
    IF S = {} THEN <<>>
    ELSE LET m == CHOOSE x \in S : \A y \in S \ {x} : NameLess(x, y, suffix)
         IN <<m>> \o Sorted(S \ {m}, suffix)

Range(f) == { f[i] : i \in DOMAIN f }

\* image_stems of run_pipeline (lines 66-70).
ImageStems(mode, orig, crop) ==
    (IF mode \in {"original", "both"} THEN <<orig>> ELSE <<>>)
    \o (IF mode \in {"crop", "both"} THEN <<crop>> ELSE <<>>)

\* The rows crop_image writes to metadata_catalog_cropped.csv: every row of
\* the catalog, and a clone of the original's row under the crop's name.
CroppedCatalog(rows, orig, crop) ==
    rows \cup (IF orig \in rows THEN {crop} ELSE {})

\* The catalog run_minnaert_correction hands to the corrector (lines 247-253).
MetadataCsv(mode, rows, orig, crop) ==
    IF mode = "crop" THEN CroppedCatalog(rows, orig, crop) ELSE rows

\* process_one on scene s: "KeyError" when the stem has no start_time, else
\* what the raster I/O did: io is "ok", "read_error" (rasterio.open of the
\* level-0 raster raises) or "write_error" (writing <stem>_if.tif raises).
process_one(s, io) ==
    IF s \notin meta THEN "KeyError" ELSE io

\* The mutation of run's loop in which an exception ends the loop.
ScenesLeftAborting(outcome, scenes) ==
    IF outcome = "ok" THEN Tail(scenes) ELSE <<>>

\* for tif in sorted(...): try ... except Exception: log -- the scenes the
\* loop goes on to after one scene's outcome.
ScenesLeft(outcome, scenes) == Tail(scenes)

-----------------------------------------------------------------------------
(* Floating-point values.  A finite value is the exact fraction num/den in   *)
(* lowest terms (rounding is not modelled); "nan", "inf" and "ninf" are the  *)
(* IEEE specials numpy produces instead of raising.                          *)

Abs(n) == IF n < 0 THEN -n ELSE n

RECURSIVE GCD(_, _)
GCD(a, b) == IF b = 0 THEN a ELSE GCD(b, a % b)

Fraction(n, d) ==
    LET g == GCD(Abs(n), Abs(d))
        s == IF d < 0 THEN -1 ELSE 1
    IN [kind |-> "num", num |-> (s * n) \div g, den |-> (s * d) \div g]

Zero == Fraction(0, 1)
NaN == [kind |-> "nan", num |-> 0, den |-> 1]
Inf == [kind |-> "inf", num |-> 1, den |-> 1]
NegInf == [kind |-> "ninf", num |-> -1, den |-> 1]

IsFinite(x) == x.kind = "num"
SignOf(x) == IF x.num > 0 THEN 1 ELSE IF x.num < 0 THEN -1 ELSE 0
Signed(s) == IF s > 0 THEN Inf ELSE NegInf

\* Comparisons with nan are false.
FLess(x, y) ==
    /\ x.kind # "nan" /\ y.kind # "nan"
    /\ IF IsFinite(x) /\ IsFinite(y) THEN x.num * y.den < y.num * x.den
       ELSE IF IsFinite(x) THEN y.kind = "inf"
       ELSE IF IsFinite(y) THEN x.kind = "ninf"
       ELSE x.kind = "ninf" /\ y.kind = "inf"

FMul(x, y) ==
    IF x.kind = "nan" \/ y.kind = "nan" THEN NaN
    ELSE IF IsFinite(x) /\ IsFinite(y)
         THEN LET g1 == GCD(Abs(x.num), y.den)
                  g2 == GCD(Abs(y.num), x.den)
              IN Fraction((x.num \div g1) * (y.num \div g2), (x.den \div g2) * (y.den \div g1))
    ELSE IF SignOf(x) = 0 \/ SignOf(y) = 0 THEN NaN
    ELSE Signed(SignOf(x) * SignOf(y))

\* numpy division: x/0 is nan for x = 0 and an infinity otherwise.
FDiv(x, y) ==
    IF x.kind = "nan" \/ y.kind = "nan" THEN NaN
    ELSE IF IsFinite(x) /\ IsFinite(y)
         THEN IF y.num = 0
              THEN IF x.num = 0 THEN NaN ELSE Signed(SignOf(x))
              ELSE FMul(x, Fraction(y.den, y.num))
    ELSE IF IsFinite(x) THEN Zero
    ELSE IF IsFinite(y) THEN Signed(SignOf(x) * (IF y.num < 0 THEN -1 ELSE 1))
    ELSE NaN

FAdd(x, y) ==
    IF x.kind = "nan" \/ y.kind = "nan" THEN NaN
    ELSE IF IsFinite(x) /\ IsFinite(y)
         THEN LET g == GCD(x.den, y.den)
              IN Fraction(x.num * (y.den \div g) + y.num * (x.den \div g), x.den * (y.den \div g))
    ELSE IF IsFinite(x) THEN y
    ELSE IF IsFinite(y) \/ x.kind = y.kind THEN x
    ELSE NaN

FMax(x, y) == IF FLess(x, y) THEN y ELSE x

RECURSIVE Pow(_, _)
Pow(x, e) ==
    IF e = 0 THEN Fraction(1, 1)
    ELSE IF e > 0 THEN FMul(x, Pow(x, e - 1))
    ELSE FDiv(Pow(x, e + 1), x)

RECURSIVE Sum(_)
Sum(a) == IF a = <<>> THEN Zero ELSE FAdd(Head(a), Sum(Tail(a)))

\* np.mean
Mean(a) == FDiv(Sum(a), Fraction(Len(a), 1))

-----------------------------------------------------------------------------
(* The radiometric arithmetic of process_one (lines 157-166) *)

\* A raster is the row of its pixels.
MaxPixels == 2
DNs == {0, 1, 3, 5}
RawRasters == SeqsUpTo(DNs, MaxPixels) \ {<<>>}

\* dark_current, gain and k_exponent as config.json gives them; nothing
\* checks their range.
Calibrations == [dark : {2, 4}, gain : {-1, 0, 2}, k : {0, 1}]

\* Incidence and emission angles in degrees and their cosines.
Angles == {0, 60, 90, 120}
Cos(deg) ==
    CASE deg = 0 -> Fraction(1, 1)
      [] deg = 60 -> Fraction(1, 2)
      [] deg = 90 -> Zero
      [] deg = 120 -> Fraction(-1, 2)

Epsilon == Fraction(1, 1000000)

\* max(np.cos(np.deg2rad(angle)), 1e-6)
Mu(deg) == FMax(Cos(deg), Epsilon)

\* np.clip(x, 0, None)
Clip(x) == IF FLess(x, Zero) THEN Zero ELSE x

\* Lines 164-165.
Radiance(raw, dark, gain) ==
    [i \in DOMAIN raw |-> Clip(Fraction((raw[i] - dark) * gain, 1))]

\* Line 166.
MinnaertReflectance(rad, incidence, emission, k) ==
    [i \in DOMAIN rad |->
        FMul(FMul(rad[i], Pow(Mu(incidence), -k)), Pow(Mu(emission), k - 1))]

-----------------------------------------------------------------------------
(* normalize_and_visualize (albedo.py lines 37-45) *)

MaxWidth == 3

\* Pixels of the raster read from <stem>_if.tif: NaN or finite.
ReflectancePixels == {NaN, Fraction(-1, 1), Zero, Fraction(1, 1), Fraction(4, 1)}
ReflectanceRasters == SeqsUpTo(ReflectancePixels, MaxWidth) \ {<<>>}

Sigmas == {0, 1, 2}

\* Lines 37-38: np.nan_to_num(arr, nan=0.0), then arr[arr < 0] = 0.
nan_to_num(x) == IF x.kind = "nan" THEN Zero ELSE x
Sanitized(r) == [i \in DOMAIN r |-> Clip(nan_to_num(r[i]))]

\* The kernel of gaussian_filter along the row: positive, symmetric weights,
\* flatter for a larger sigma, cut here at one pixel to each side.
GaussianKernel(s) == IF s = 1 THEN <<3, 5, 3>> ELSE <<7, 8, 7>>

\* mode="reflect": beyond an edge the row continues with its own mirror image.
Mirror(i, n) == IF i < 1 THEN 1 ELSE IF i > n THEN n ELSE i

\* An axis whose sigma is not above 1e-15 is left unfiltered.
gaussian_filter(a, s) ==
    IF s <= 0 THEN a
    ELSE LET w == GaussianKernel(s)
             n == Len(a)
         IN [i \in DOMAIN a |->
                FDiv(FAdd(FAdd(FMul(Fraction(w[1], 1), a[Mirror(i - 1, n)]),
                               FMul(Fraction(w[2], 1), a[i])),
                          FMul(Fraction(w[3], 1), a[Mirror(i + 1, n)])),
                     Fraction(w[1] + w[2] + w[3], 1))]

\* Lines 41-42.
FlooredTrend(a, s) ==
    LET trend == gaussian_filter(a, s)
    IN [i \in DOMAIN a |-> IF FLess(trend[i], Epsilon) THEN Epsilon ELSE trend[i]]

\* The mutation of line 45 that rescales by the total instead of the mean.
TargetScaleByTotal(norm) == FDiv(Fraction(1, 10), Sum(norm))

\* Line 45: 0.1 / np.mean(arr_norm)
TargetScale(norm) == FDiv(Fraction(1, 10), Mean(norm))

\* Lines 44-45.
Normalized(a, trend) ==
    LET norm == [i \in DOMAIN a |-> FDiv(a[i], trend[i])]
    IN [i \in DOMAIN a |-> FMul(norm[i], TargetScale(norm))]

-----------------------------------------------------------------------------
(* run_shadow_detection on one scene (shadow.py lines 72-117) *)

\* The pixels of a raster of shape <<height, width>>.
Pixels(dims) == (1..dims[1]) \X (1..dims[2])

\* Pixel values of a normalized raster, in hundredths.
Levels == {2, 8, 40}

\* Every raster of 1x1 and 2x2 pixels, the 3x3 rasters of two levels and the
\* uniform 5x5 rasters.
Shapes == {<<1, 1>>, <<2, 2>>, <<3, 3>>, <<5, 5>>}
RastersOf(dims) ==
    IF dims[1] <= 2 THEN [Pixels(dims) -> Levels]
    ELSE IF dims[1] = 3 THEN [Pixels(dims) -> {8, 40}]
    ELSE { [p \in Pixels(dims) |-> v] : v \in Levels }

\* config["shadow"]: thresholds in hundredths, threshold_factor a fraction.
ShadowDefaults ==
    [sun_el_threshold |-> 10, abs_if_threshold |-> 5, min_if_valid |-> 5,
     threshold_factor |-> Fraction(1, 2), morph_iters |-> 1]
ShadowConfigs ==
    { ShadowDefaults,
      [ShadowDefaults EXCEPT !.morph_iters = 0],
      [ShadowDefaults EXCEPT !.morph_iters = 2],
      [ShadowDefaults EXCEPT !.sun_el_threshold = 50],
      [ShadowDefaults EXCEPT !.min_if_valid = 30],
      [ShadowDefaults EXCEPT !.threshold_factor = Fraction(2, 1)],
      [ShadowDefaults EXCEPT !.abs_if_threshold = 0] }

\* The scene's row in metadata_catalog.csv: absent, or with the text of its
\* sun_elevation column (empty when the label had no such element).
NoRow == [present |-> FALSE, sun_elevation |-> NonNumeric]
Row(field) == [present |-> TRUE, sun_elevation |-> field]
SunRows == {NoRow, Row(NonNumeric), Row(Num(5)), Row(Num(60))}

DefaultSunElevation == 45

NoCoverage == [kind |-> "none", num |-> 0, den |-> 1]

\* load_sun_elevation: float() of every row's sun_elevation; it raises
\* ValueError on a text that is not a number.
SunTableLoads(row) == row.present => IsNumeric(row.sun_elevation)

\* sun_elevations.get(stem, 45.0)
SunElevationOf(row) ==
    IF row.present THEN NumberOf(row.sun_elevation) ELSE DefaultSunElevation

RECURSIVE Total(_, _)
Total(a, S) ==
    IF S = {} THEN 0
    ELSE LET p == CHOOSE q \in S : TRUE IN a[p] + Total(a, S \ {p})

\* The mutation of line 81 that counts every pixel as valid.
EveryPixel(a, min_if_valid) == DOMAIN a

\* Line 81: valid = arr >= MIN_IF_VALID
ValidPixels(a, min_if_valid) == { p \in DOMAIN a : a[p] >= min_if_valid }

\* Line 82: the mean of the valid pixels, 0.0 when there is none.
MeanIf(a, min_if_valid) ==
    LET valid == ValidPixels(a, min_if_valid)
    IN IF valid # {} THEN Fraction(Total(a, valid), Cardinality(valid)) ELSE Zero

\* Lines 83-84.
AdaptiveMask(a, cfg) ==
    LET rel_thr == FMul(cfg.threshold_factor, MeanIf(a, cfg.min_if_valid))
    IN { p \in DOMAIN a : a[p] < cfg.abs_if_threshold \/ FLess(Fraction(a[p], 1), rel_thr) }

\* generate_binary_structure(2, 2): a pixel and its eight neighbours.
Struct(p) == { <<p[1] + di, p[2] + dj>> : di \in -1..1, dj \in -1..1 }

\* One pass of erosion and of dilation with border_value = 0: pixels outside
\* the raster count as false.
ErodeOnce(M, dims) == { p \in Pixels(dims) : Struct(p) \subseteq M }
DilateOnce(M, dims) == { p \in Pixels(dims) : Struct(p) \cap M # {} }

\* iterations >= 1 repeats the pass that many times; iterations < 1 repeats
\* it until the result no longer changes.
RECURSIVE binary_erosion(_, _, _)
binary_erosion(M, dims, iterations) ==
    LET E == ErodeOnce(M, dims)
    IN IF iterations = 1 THEN E
       ELSE IF iterations > 1 THEN binary_erosion(E, dims, iterations - 1)
       ELSE IF E = M THEN M ELSE binary_erosion(E, dims, iterations)

RECURSIVE binary_dilation(_, _, _)
binary_dilation(M, dims, iterations) ==
    LET D == DilateOnce(M, dims)
    IN IF iterations = 1 THEN D
       ELSE IF iterations > 1 THEN binary_dilation(D, dims, iterations - 1)
       ELSE IF D = M THEN M ELSE binary_dilation(D, dims, iterations)

\* The mutation of binary_opening that dilates before it erodes.
binary_opening_dilating_first(M, dims, iterations) ==
    binary_erosion(binary_dilation(M, dims, iterations), dims, iterations)

binary_opening(M, dims, iterations) ==
    binary_dilation(binary_erosion(M, dims, iterations), dims, iterations)

binary_closing(M, dims, iterations) ==
    binary_erosion(binary_dilation(M, dims, iterations), dims, iterations)

\* The mutation of line 95 that writes true as 255.
MaskAsGrey(M, dims) == [p \in Pixels(dims) |-> IF p \in M THEN 255 ELSE 0]

\* Line 95: mask.astype(np.uint8)
MaskAsUint8(M, dims) == [p \in Pixels(dims) |-> IF p \in M THEN 1 ELSE 0]

\* Line 116: 100.0 * mask.sum() / mask.size
Coverage(M, dims) == Fraction(100 * Cardinality(M), Cardinality(Pixels(dims)))

-----------------------------------------------------------------------------
(* The part of the state a specification does not use stays at these values. *)

SeriesIdle ==
    /\ telemetry = <<>>
    /\ parser = "none"
    /\ times = <<>>
    /\ values = <<>>
    /\ image_time = 0
    /\ interp = NoResult

GeomIdle ==
    /\ spm_file = [exists |-> FALSE, lines |-> <<>>]
    /\ oat_file = [exists |-> FALSE, lines |-> <<>>]
    /\ spm_times = <<>>
    /\ sunel_vals = <<>>
    /\ oat_times = <<>>
    /\ emis_vals = <<>>
    /\ label = [exists |-> FALSE, parses |-> FALSE, solar_incidence |-> NoElement,
                sun_elevation |-> NoElement]
    /\ constructed = FALSE
    /\ geom = NoGeometry

PipeIdle ==
    /\ pc = "idle"
    /\ process_mode = "original"
    /\ original_tif = 0
    /\ crop_name = 0
    /\ config = ValidConfig
    /\ catalog = {}
    /\ level0 = {}
    /\ meta = {}
    /\ logs_open = FALSE
    /\ log_file = "none"
    /\ queue = <<>>
    /\ level1 = NoRasters
    /\ qc_rows = <<>>
    /\ error_log = <<>>
    /\ albedo_qc = <<>>
    /\ coverage_log = <<>>
    /\ attempted = NoScenes
    /\ failed = NoScenes
    /\ failure = NoFailure

CorrectIdle ==
    /\ dn = <<>>
    /\ corrector = [dark |-> 0, gain |-> 0, k |-> 0]
    /\ scene_angles = [incidence |-> 0, emission |-> 0]
    /\ radiance = <<>>
    /\ arr_if = <<>>

NormalizeIdle ==
    /\ reflectance = <<>>
    /\ sigma = 0
    /\ arr = <<>>
    /\ albedo_trend = <<>>
    /\ arr_norm = <<>>

ShadowIdle ==
    /\ albnorm = <<>>
    /\ profile = <<0, 0>>
    /\ shadow_config = ShadowDefaults
    /\ sun_row = NoRow
    /\ seg_pc = "idle"
    /\ sun_elev = 0
    /\ thresholded = {}
    /\ mask = {}
    /\ steps = <<>>
    /\ out_mask = <<>>
    /\ shadow_pct = NoCoverage

RasterIdle == CorrectIdle /\ NormalizeIdle /\ ShadowIdle

-----------------------------------------------------------------------------
(* SpecGeom *)

InitGeom ==
    /\ SeriesIdle
    /\ PipeIdle
    /\ RasterIdle
    /\ spm_file \in GeometryFiles
    /\ oat_file \in GeometryFiles
    /\ label \in Labels
    /\ spm_times = <<>>
    /\ sunel_vals = <<>>
    /\ oat_times = <<>>
    /\ emis_vals = <<>>
    /\ constructed = FALSE
    /\ geom = NoGeometry

\* MinnaertCorrector.__init__ lines 113-114: a missing file gives ([], []).
Construct ==
    /\ ~constructed
    /\ constructed' = TRUE
    /\ oat_times' = IF oat_file.exists THEN parse_oat(oat_file.lines).times ELSE <<>>
    /\ emis_vals' = IF oat_file.exists THEN parse_oat(oat_file.lines).vals ELSE <<>>
    /\ spm_times' = IF spm_file.exists THEN parse_spm(spm_file.lines).times ELSE <<>>
    /\ sunel_vals' = IF spm_file.exists THEN parse_spm(spm_file.lines).vals ELSE <<>>
    /\ UNCHANGED <<spm_file, oat_file, label, geom, seriesVars, pipeVars, rasterVars>>

ResolveGeometry ==
    /\ constructed
    /\ geom.status = "pending"
    /\ \E t \in SceneTimes, interrupted \in BOOLEAN :
          geom' = ResolvedGeometry(t, interrupted)
    /\ UNCHANGED <<spm_file, oat_file, spm_times, sunel_vals, oat_times, emis_vals,
                   label, constructed, seriesVars, pipeVars, rasterVars>>

NextGeom == Construct \/ ResolveGeometry

SpecGeom == InitGeom /\ [][NextGeom]_vars

-----------------------------------------------------------------------------
(* SpecSeries *)

InitSeries ==
    /\ GeomIdle
    /\ PipeIdle
    /\ RasterIdle
    /\ telemetry \in TelemetryFiles
    /\ parser = "none"
    /\ times = <<>>
    /\ values = <<>>
    /\ image_time = 0
    /\ interp = NoResult

ParseSpm ==
    /\ parser = "none"
    /\ parser' = "spm"
    /\ times' = parse_spm(telemetry).times
    /\ values' = parse_spm(telemetry).vals
    /\ UNCHANGED <<telemetry, image_time, interp, geomVars, pipeVars, rasterVars>>

ParseOat ==
    /\ parser = "none"
    /\ parser' = "oat"
    /\ times' = parse_oat(telemetry).times
    /\ values' = parse_oat(telemetry).vals
    /\ UNCHANGED <<telemetry, image_time, interp, geomVars, pipeVars, rasterVars>>

\* process_one calls interp_angle only on a non-empty series (line 134).
Interpolate ==
    /\ parser # "none"
    /\ interp = NoResult
    /\ times # <<>>
    /\ \E q \in ImageTimes :
          /\ image_time' = q
          /\ interp' = interp_angle(q, times, values)
    /\ UNCHANGED <<telemetry, parser, times, values, geomVars, pipeVars, rasterVars>>

NextSeries == ParseSpm \/ ParseOat \/ Interpolate

SpecSeries == InitSeries /\ [][NextSeries]_vars

-----------------------------------------------------------------------------
(* Spec: run_pipeline *)

\* The project directory holds the catalog the extractor will write and the
\* crops earlier runs left in level0/crops; level1 starts empty.
Init ==
    /\ SeriesIdle
    /\ GeomIdle
    /\ RasterIdle
    /\ pc = "load_config"
    /\ process_mode \in {"original", "crop", "both"}
    /\ original_tif = 1
    /\ crop_name = 2
    /\ config \in Configs
    /\ catalog \in SUBSET Stems
    /\ level0 \in SUBSET Stems
    /\ meta = {}
    /\ logs_open = FALSE
    /\ log_file = "none"
    /\ queue = <<>>
    /\ level1 = NoRasters
    /\ qc_rows = <<>>
    /\ error_log = <<>>
    /\ albedo_qc = <<>>
    /\ coverage_log = <<>>
    /\ attempted = NoScenes
    /\ failed = NoScenes
    /\ failure = NoFailure

Fail(stage, scene, error) ==
    /\ pc' = "failed"
    /\ failure' = Failure(stage, scene, error)

\* load_config (line 41): only the file's existence is checked.
LoadConfig ==
    /\ pc = "load_config"
    /\ IF config.file
       THEN pc' = "stage" /\ UNCHANGED failure
       ELSE Fail("load_config", 0, "FileNotFoundError")
    /\ UNCHANGED <<process_mode, original_tif, crop_name, config, catalog, level0, meta,
                   logs_open, log_file, queue, level1, qc_rows, error_log, albedo_qc, coverage_log,
                   attempted, failed, seriesVars, geomVars, rasterVars>>

\* Steps 1-4 (lines 44-55).  Set-up, copying or extraction may raise.  Then
\* run_conversion constructs the converter, which opens its log, and
\* convert_all returns early when raw/img holds no .img file, closes the log
\* after the loop, or is left by an exception raised inside the loop.
StageInputs ==
    /\ pc = "stage"
    /\ \E outcome \in {"raised_before", "no_img", "converted", "convert_raised"} :
          /\ log_file' = CASE outcome = "raised_before" -> log_file
                           [] outcome = "converted" -> "closed"
                           [] OTHER -> "open"
          /\ IF outcome \in {"no_img", "converted"}
             THEN /\ pc' = IF process_mode \in {"crop", "both"} THEN "crop" ELSE "minnaert"
                  /\ UNCHANGED failure
             ELSE Fail("stage", 0, "Exception")
    /\ UNCHANGED <<process_mode, original_tif, crop_name, config, catalog, level0, meta,
                   logs_open, queue, level1, qc_rows, error_log, albedo_qc, coverage_log,
                   attempted, failed, seriesVars, geomVars, rasterVars>>

\* Step 5 (lines 57-60): crop_image writes level0/crops/<crop_name>, or raises.
CropImage ==
    /\ pc = "crop"
    /\ \E ok \in BOOLEAN :
          IF ok
          THEN /\ pc' = "minnaert"
               /\ level0' = level0 \cup {crop_name}
               /\ UNCHANGED failure
          ELSE Fail("crop", 0, "Exception") /\ UNCHANGED level0
    /\ UNCHANGED <<process_mode, original_tif, crop_name, config, catalog, meta,
                   logs_open, log_file, queue, level1, qc_rows, error_log, albedo_qc, coverage_log,
                   attempted, failed, seriesVars, geomVars, rasterVars>>

\* Step 6 up to the batch loop: run_minnaert_correction reads config["minnaert"]
\* and its keys, constructs the corrector (metadata index, log handle) and run
\* writes the CSV header and lists level0/crops in sorted order.
StartCorrection ==
    /\ pc = "minnaert"
    /\ IF config.minnaert = "absent"
       THEN /\ Fail("minnaert", 0, "KeyError")
            /\ UNCHANGED <<meta, logs_open, queue>>
       ELSE /\ pc' = "correcting"
            /\ meta' = MetadataCsv(process_mode, catalog, original_tif, crop_name)
            /\ logs_open' = TRUE
            /\ queue' = Sorted(level0, TifSuffix)
            /\ UNCHANGED failure
    /\ UNCHANGED <<process_mode, original_tif, crop_name, config, catalog, level0,
                   log_file, level1, qc_rows, error_log, albedo_qc, coverage_log,
                   attempted, failed, seriesVars, geomVars, rasterVars>>

\* One iteration of run's loop (lines 196-203): process_one, then the row and
\* the provenance line, or the except clause's log line.  A write error may
\* leave a partial <stem>_if.tif behind.
CorrectScene ==
    /\ pc = "correcting"
    /\ queue # <<>>
    /\ LET s == Head(queue) IN
       \E io \in {"ok", "read_error", "write_error"}, leaves_file \in BOOLEAN :
          LET outcome == process_one(s, io) IN
          /\ (outcome # "write_error") => leaves_file
          /\ attempted' = [attempted EXCEPT !.minnaert = @ \cup {s}]
          /\ IF outcome = "ok"
             THEN /\ level1' = [level1 EXCEPT !.ifs = @ \cup {s}]
                  /\ qc_rows' = Append(qc_rows, s)
                  /\ UNCHANGED <<failed, error_log>>
             ELSE /\ level1' = IF outcome = "write_error" /\ leaves_file
                                THEN [level1 EXCEPT !.ifs = @ \cup {s}, !.partial = @ \cup {s}]
                                ELSE level1
                  /\ failed' = [failed EXCEPT !.minnaert = @ \cup {s}]
                  /\ error_log' = Append(error_log, <<s, outcome>>)
                  /\ UNCHANGED qc_rows
          /\ queue' = ScenesLeft(outcome, queue)
    /\ UNCHANGED <<pc, failure, process_mode, original_tif, crop_name, config, catalog,
                   level0, meta, logs_open, log_file, albedo_qc, coverage_log,
                   seriesVars, geomVars, rasterVars>>

\* The end of run (lines 205-206) and lines 65-70 of run_pipeline.  The log
\* is closed after plot_stats; when plot_stats raises, run is left before
\* the close.
FinishCorrection ==
    /\ pc = "correcting"
    /\ queue = <<>>
    /\ \E plotted \in BOOLEAN :
          IF plotted
          THEN /\ logs_open' = FALSE
               /\ pc' = "albedo"
               /\ queue' = ImageStems(process_mode, original_tif, crop_name)
               /\ UNCHANGED failure
          ELSE /\ Fail("minnaert", 0, "Exception")
               /\ UNCHANGED <<logs_open, queue>>
    /\ UNCHANGED <<process_mode, original_tif, crop_name, config, catalog, level0,
                   log_file, meta, level1, qc_rows, error_log, albedo_qc, coverage_log,
                   attempted, failed, seriesVars, geomVars, rasterVars>>

\* One iteration of the loop of step 7 (lines 71-72): run_albedo_correction
\* reads config["albedo"]["sigma"], opens <stem>_if.tif, writes
\* <stem>_albnorm.tif and rewrites albedo_qc.csv.  Nothing catches here.
NormalizeScene ==
    /\ pc = "albedo"
    /\ queue # <<>>
    /\ LET s == Head(queue) IN
       \E io \in {"ok", "io_error"} :
          IF config.albedo = "absent"
          THEN /\ Fail("albedo", 0, "KeyError")
               /\ UNCHANGED <<queue, level1, albedo_qc, attempted, failed>>
          ELSE /\ attempted' = [attempted EXCEPT !.albedo = @ \cup {s}]
               /\ IF s \notin level1.ifs \/ io = "io_error"
                  THEN /\ Fail("albedo", s, "RasterioIOError")
                       /\ failed' = [failed EXCEPT !.albedo = @ \cup {s}]
                       /\ UNCHANGED <<queue, level1, albedo_qc>>
                  ELSE /\ level1' = [level1 EXCEPT !.albnorms = @ \cup {s}]
                       /\ albedo_qc' = <<s>>
                       /\ queue' = Tail(queue)
                       /\ UNCHANGED <<pc, failure, failed>>
    /\ UNCHANGED <<process_mode, original_tif, crop_name, config, catalog, level0, meta,
                   logs_open, log_file, qc_rows, error_log, coverage_log,
                   seriesVars, geomVars, rasterVars>>

\* Step 8 up to the batch loop (shadow.py lines 43-70).
StartShadow ==
    /\ pc = "albedo"
    /\ queue = <<>>
    /\ IF config.shadow = "absent"
       THEN Fail("shadow", 0, "KeyError") /\ UNCHANGED queue
       ELSE /\ pc' = "segmenting"
            /\ queue' = Sorted(level1.albnorms, AlbnormSuffix)
            /\ UNCHANGED failure
    /\ UNCHANGED <<process_mode, original_tif, crop_name, config, catalog, level0, meta,
                   logs_open, log_file, level1, qc_rows, error_log, albedo_qc, coverage_log,
                   attempted, failed, seriesVars, geomVars, rasterVars>>

\* One iteration of the loop of run_shadow_detection (lines 70-118).  Nothing
\* catches here.
SegmentScene ==
    /\ pc = "segmenting"
    /\ queue # <<>>
    /\ LET s == Head(queue) IN
       \E io \in {"ok", "io_error"} :
          /\ attempted' = [attempted EXCEPT !.shadow = @ \cup {s}]
          /\ IF io = "io_error"
             THEN /\ Fail("shadow", s, "RasterioIOError")
                  /\ failed' = [failed EXCEPT !.shadow = @ \cup {s}]
                  /\ UNCHANGED <<queue, level1, coverage_log>>
             ELSE /\ level1' = [level1 EXCEPT !.masks = @ \cup {s}]
                  /\ coverage_log' = Append(coverage_log, s)
                  /\ queue' = Tail(queue)
                  /\ UNCHANGED <<pc, failure, failed>>
    /\ UNCHANGED <<process_mode, original_tif, crop_name, config, catalog, level0, meta,
                   logs_open, log_file, qc_rows, error_log, albedo_qc,
                   seriesVars, geomVars, rasterVars>>

\* The end of run_shadow_detection (lines 120-128).
FinishShadow ==
    /\ pc = "segmenting"
    /\ queue = <<>>
    /\ pc' = "package"
    /\ UNCHANGED <<failure, process_mode, original_tif, crop_name, config, catalog, level0,
                   meta, logs_open, log_file, queue, level1, qc_rows, error_log, albedo_qc,
                   coverage_log, attempted, failed, seriesVars, geomVars, rasterVars>>

\* Step 9 (line 78).
Package ==
    /\ pc = "package"
    /\ pc' = "done"
    /\ UNCHANGED <<failure, process_mode, original_tif, crop_name, config, catalog, level0,
                   meta, logs_open, log_file, queue, level1, qc_rows, error_log, albedo_qc,
                   coverage_log, attempted, failed, seriesVars, geomVars, rasterVars>>

Next ==
    \/ LoadConfig
    \/ StageInputs
    \/ CropImage
    \/ StartCorrection
    \/ CorrectScene
    \/ FinishCorrection
    \/ NormalizeScene
    \/ StartShadow
    \/ SegmentScene
    \/ FinishShadow
    \/ Package

Spec == Init /\ [][Next]_vars

-----------------------------------------------------------------------------
(* SpecCorrect *)

InitCorrect ==
    /\ SeriesIdle
    /\ GeomIdle
    /\ PipeIdle
    /\ NormalizeIdle
    /\ ShadowIdle
    /\ dn \in RawRasters
    /\ corrector \in Calibrations
    /\ scene_angles \in [incidence : Angles, emission : Angles]
    /\ radiance = <<>>
    /\ arr_if = <<>>

\* Lines 164-165: dark subtraction, gain, clip at zero.
Calibrate ==
    /\ radiance = <<>>
    /\ radiance' = Radiance(dn, corrector.dark, corrector.gain)
    /\ UNCHANGED <<dn, corrector, scene_angles, arr_if, normalizeVars, shadowVars,
                   seriesVars, geomVars, pipeVars>>

\* Lines 166-171: the Minnaert factor, and the raster is written.
Reflect ==
    /\ radiance # <<>>
    /\ arr_if = <<>>
    /\ arr_if' = MinnaertReflectance(radiance, scene_angles.incidence,
                                     scene_angles.emission, corrector.k)
    /\ UNCHANGED <<dn, corrector, scene_angles, radiance, normalizeVars, shadowVars,
                   seriesVars, geomVars, pipeVars>>

NextCorrect == Calibrate \/ Reflect

SpecCorrect == InitCorrect /\ [][NextCorrect]_vars

-----------------------------------------------------------------------------
(* SpecNormalize *)

InitNormalize ==
    /\ SeriesIdle
    /\ GeomIdle
    /\ PipeIdle
    /\ CorrectIdle
    /\ ShadowIdle
    /\ reflectance \in ReflectanceRasters
    /\ sigma \in Sigmas
    /\ arr = <<>>
    /\ albedo_trend = <<>>
    /\ arr_norm = <<>>

\* Lines 37-38.
Sanitize ==
    /\ arr = <<>>
    /\ arr' = Sanitized(reflectance)
    /\ UNCHANGED <<reflectance, sigma, albedo_trend, arr_norm, correctVars, shadowVars,
                   seriesVars, geomVars, pipeVars>>

\* Lines 41-50: trend, floor, division, rescale, and the raster is written.
Normalize ==
    /\ arr # <<>>
    /\ arr_norm = <<>>
    /\ albedo_trend' = FlooredTrend(arr, sigma)
    /\ arr_norm' = Normalized(arr, FlooredTrend(arr, sigma))
    /\ UNCHANGED <<reflectance, sigma, arr, correctVars, shadowVars,
                   seriesVars, geomVars, pipeVars>>

NextNormalize == Sanitize \/ Normalize

SpecNormalize == InitNormalize /\ [][NextNormalize]_vars

-----------------------------------------------------------------------------
(* SpecShadow *)

InitShadow ==
    /\ SeriesIdle
    /\ GeomIdle
    /\ PipeIdle
    /\ CorrectIdle
    /\ NormalizeIdle
    /\ profile \in Shapes
    /\ albnorm \in RastersOf(profile)
    /\ shadow_config \in ShadowConfigs
    /\ sun_row \in SunRows
    /\ seg_pc = "start"
    /\ sun_elev = 0
    /\ thresholded = {}
    /\ mask = {}
    /\ steps = <<>>
    /\ out_mask = <<>>
    /\ shadow_pct = NoCoverage

\* Line 67: the table is loaded before the loop; a ValueError ends the stage.
LoadSunElevation ==
    /\ seg_pc = "start"
    /\ seg_pc' = IF SunTableLoads(sun_row) THEN "read" ELSE "failed"
    /\ UNCHANGED <<albnorm, profile, shadow_config, sun_row, sun_elev, thresholded, mask,
                   steps, out_mask, shadow_pct, correctVars, normalizeVars,
                   seriesVars, geomVars, pipeVars>>

\* Lines 76-79.
LowSunBranch ==
    /\ seg_pc = "read"
    /\ SunElevationOf(sun_row) < shadow_config.sun_el_threshold
    /\ sun_elev' = SunElevationOf(sun_row)
    /\ mask' = Pixels(profile)
    /\ thresholded' = Pixels(profile)
    /\ steps' = Append(steps, [step |-> "low_sun", iterations |-> 0])
    /\ seg_pc' = "thresholded"
    /\ UNCHANGED <<albnorm, profile, shadow_config, sun_row, out_mask, shadow_pct,
                   correctVars, normalizeVars, seriesVars, geomVars, pipeVars>>

\* Lines 76, 80-85.
AdaptiveThresholdBranch ==
    /\ seg_pc = "read"
    /\ ~(SunElevationOf(sun_row) < shadow_config.sun_el_threshold)
    /\ sun_elev' = SunElevationOf(sun_row)
    /\ mask' = AdaptiveMask(albnorm, shadow_config)
    /\ thresholded' = AdaptiveMask(albnorm, shadow_config)
    /\ steps' = Append(steps, [step |-> "adaptive", iterations |-> 0])
    /\ seg_pc' = "thresholded"
    /\ UNCHANGED <<albnorm, profile, shadow_config, sun_row, out_mask, shadow_pct,
                   correctVars, normalizeVars, seriesVars, geomVars, pipeVars>>

\* Line 87.
Opening ==
    /\ seg_pc = "thresholded"
    /\ mask' = binary_opening(mask, profile, shadow_config.morph_iters)
    /\ steps' = Append(steps, [step |-> "opening", iterations |-> shadow_config.morph_iters])
    /\ seg_pc' = "opened"
    /\ UNCHANGED <<albnorm, profile, shadow_config, sun_row, sun_elev, thresholded, out_mask,
                   shadow_pct, correctVars, normalizeVars, seriesVars, geomVars, pipeVars>>

\* Line 88.
Closing ==
    /\ seg_pc = "opened"
    /\ mask' = binary_closing(mask, profile, shadow_config.morph_iters)
    /\ steps' = Append(steps, [step |-> "closing", iterations |-> shadow_config.morph_iters])
    /\ seg_pc' = "closed"
    /\ UNCHANGED <<albnorm, profile, shadow_config, sun_row, sun_elev, thresholded, out_mask,
                   shadow_pct, correctVars, normalizeVars, seriesVars, geomVars, pipeVars>>

\* Lines 90-117: the mask is written, then its coverage is logged.
SaveMask ==
    /\ seg_pc = "closed"
    /\ out_mask' = MaskAsUint8(mask, profile)
    /\ shadow_pct' = Coverage(mask, profile)
    /\ steps' = steps \o << [step |-> "write", iterations |-> 0],
                            [step |-> "coverage", iterations |-> 0] >>
    /\ seg_pc' = "done"
    /\ UNCHANGED <<albnorm, profile, shadow_config, sun_row, sun_elev, thresholded, mask,
                   correctVars, normalizeVars, seriesVars, geomVars, pipeVars>>

NextShadow ==
    \/ LoadSunElevation
    \/ LowSunBranch
    \/ AdaptiveThresholdBranch
    \/ Opening
    \/ Closing
    \/ SaveMask

SpecShadow == InitShadow /\ [][NextShadow]_vars

-----------------------------------------------------------------------------
(* Claims about the angle series (SpecSeries) *)

IsSorted(ts) == \A i \in 1..(Len(ts) - 1) : ts[i] <= ts[i + 1]

\* A record whose timestamp fields and angle field all parse.
WellFormed(line) ==
    /\ line.hdr
    /\ IsNumeric(line.year)
    /\ IsNumeric(line.second)
    /\ NumberOf(line.second) \in 0..MaxSecond
    /\ YearOf(line.year) \in 1..MaxYear
    /\ IsNumeric(line.ang)

WellFormedRecords == SelectSeq(telemetry, WellFormed)

\* C5: the series a parser returns is sorted ascending (non-decreasing) by
\* timestamp, whatever the order of the records in the file.
C5_SeriesSortedByTimestamp ==
    parser # "none" => IsSorted(times)

\* C6: the built series holds exactly one sample for each well-formed record of
\* the file, in file order with time and angle paired, and none for a
\* malformed record, wherever the malformed records stand in the file.
C6_MalformedRecordsDropped ==
    parser # "none" =>
        /\ Len(times) = Len(WellFormedRecords)
        /\ Len(values) = Len(WellFormedRecords)
        /\ \A i \in 1..Len(WellFormedRecords) :
              /\ times[i] = DateTime(YearOf(WellFormedRecords[i].year),
                                     NumberOf(WellFormedRecords[i].second))
              /\ values[i] = NumberOf(WellFormedRecords[i].ang)

\* A parsed three-line file whose first and last records are malformed (the
\* first in its timestamp or angle) around a well-formed one that was kept.
C6_Witness ==
    /\ parser # "none"
    /\ Len(telemetry) = 3
    /\ telemetry[1].hdr /\ ~WellFormed(telemetry[1])
    /\ WellFormed(telemetry[2])
    /\ telemetry[3].hdr /\ ~WellFormed(telemetry[3])
    /\ Len(times) = 1

C8_LinearInterpolation ==
    (interp # NoResult /\ IsSorted(times)
       /\ times[1] <= image_time /\ image_time <= times[Len(times)]) =>
        /\ ~interp.exc
        /\ image_time = times[1] => interp = Angle(values[1])
        /\ \A i \in 1..(Len(times) - 1) :
              (times[i] < image_time /\ image_time <= times[i + 1]) =>
                  /\ interp.num * (times[i + 1] - times[i])
                       = interp.den * ( values[i] * (times[i + 1] - times[i])
                                        + (values[i + 1] - values[i]) * (image_time - times[i]) )
                  /\ (2 * image_time = times[i] + times[i + 1]) =>
                        2 * interp.num = interp.den * (values[i] + values[i + 1])

\* A query at the midpoint of two samples ten seconds apart with different
\* values, answered with their mean.
C8_Witness ==
    /\ interp # NoResult
    /\ IsSorted(times)
    /\ \E i \in 1..(Len(times) - 1) :
          /\ times[i + 1] - times[i] = 10
          /\ image_time - times[i] = 5
          /\ values[i] # values[i + 1]
          /\ 2 * interp.num = interp.den * (values[i] + values[i + 1])

-----------------------------------------------------------------------------
(* Claims about geometry resolution (SpecGeom) *)

\* process_one reached fallback_angles for the scene.
FallbackCalled ==
    /\ geom.status \in {"ok", "error"}
    /\ geom.path # "interpolated"

LabelHas(element) == label.exists /\ label.parses /\ element.present

\* C9: the source tag is "interpolated" exactly when both angles came from
\* interpolating the two series, and "fallback" whenever the static estimate
\* was used, whether a series was empty or the interpolation raised.
C9_SourceTagMatchesGeometry ==
    geom.status = "ok" =>
        /\ (geom.angle_source = "interpolated_from_spm_oat") <=> (geom.path = "interpolated")
        /\ (geom.angle_source = "fallback_from_xml") <=> (geom.path = "fallback")

\* C10 as claimed: the fallback returns a pair whose incidence is the
\* incidence element when the label has one, else 90 minus the elevation
\* element when the label has one, else 45, with emission 10.
C10_FallbackFollowsLabelFields ==
    FallbackCalled =>
        /\ geom.status = "ok"
        /\ geom.emission = Rational(DefaultEmission)
        /\ IF LabelHas(label.solar_incidence)
           THEN /\ IsNumeric(label.solar_incidence.text)
                /\ geom.incidence = Rational(NumberOf(label.solar_incidence.text))
           ELSE IF LabelHas(label.sun_elevation)
           THEN /\ IsNumeric(label.sun_elevation.text)
                /\ geom.incidence = Rational(90 - NumberOf(label.sun_elevation.text))
           ELSE geom.incidence = Rational(DefaultIncidence)

\* C10 as amended: the fallback never fails; incidence is the incidence
\* element when the label has a numeric one, 90 minus the elevation element
\* when the label has no incidence element and a numeric elevation element,
\* and 45 in every other case (file missing or unparsable, neither element,
\* or the element chosen is non-numeric); emission is 10.
C10_FallbackNeverFails ==
    FallbackCalled =>
        /\ geom.status = "ok"
        /\ geom.path = "fallback"
        /\ geom.emission = Rational(DefaultEmission)
        /\ IF LabelHas(label.solar_incidence) /\ IsNumeric(label.solar_incidence.text)
           THEN geom.incidence = Rational(NumberOf(label.solar_incidence.text))
           ELSE IF ~LabelHas(label.solar_incidence) /\ LabelHas(label.sun_elevation)
                   /\ IsNumeric(label.sun_elevation.text)
           THEN geom.incidence = Rational(90 - NumberOf(label.sun_elevation.text))
           ELSE geom.incidence = Rational(DefaultIncidence)

\* The fallback ran on a label whose incidence element is non-numeric and
\* whose elevation element is numeric, and returned the default pair.
C10_Witness ==
    /\ FallbackCalled
    /\ LabelHas(label.solar_incidence)
    /\ ~IsNumeric(label.solar_incidence.text)
    /\ LabelHas(label.sun_elevation)
    /\ IsNumeric(label.sun_elevation.text)
    /\ geom.incidence = Rational(DefaultIncidence)
    /\ geom.emission = Rational(DefaultEmission)

-----------------------------------------------------------------------------
(* Claims about the run (Spec) *)

\* MinnaertCorrector.run has returned.
CorrectionOver ==
    \/ pc \in {"albedo", "segmenting", "package", "done"}
    \/ pc = "failed" /\ failure.stage \in {"albedo", "shadow"}

\* C1: in each per-scene stage an exception raised while processing one scene
\* never escapes the stage's batch loop, so it never ends the run.
C1_SceneExceptionNeverEscapes ==
    ~( /\ pc = "failed"
       /\ failure.stage \in {"minnaert", "albedo", "shadow"}
       /\ failure.scene \in Stems )

\* C2: a scene whose stem is absent from the metadata index fails in
\* correction: it gets no reflectance raster and no QA row, its error is
\* logged, and every other scene of the batch is still processed, and
\* corrected unless its own raster I/O fails.
C2_MissingTimingSkipsScene ==
    CorrectionOver =>
        \A s \in level0 \ meta :
            /\ s \notin level1.ifs
            /\ s \notin Range(qc_rows)
            /\ <<s, "KeyError">> \in Range(error_log)
            /\ \A t \in level0 \ {s} :
                  /\ t \in attempted.minnaert
                  /\ t \in meta =>
                        \/ t \in Range(qc_rows) /\ t \in level1.ifs \ level1.partial
                        \/ <<t, "read_error">> \in Range(error_log)
                        \/ <<t, "write_error">> \in Range(error_log)

\* A finished correction run in which a scene without a timestamp came
\* before a scene that was corrected.
C2_Witness ==
    /\ CorrectionOver
    /\ \E s \in level0 \ meta, t \in level0 :
          /\ s < t
          /\ <<s, "KeyError">> \in Range(error_log)
          /\ t \in Range(qc_rows)

\* C3: a scene that failed in one stage is excluded from every later stage:
\* normalization is never attempted on a scene whose correction failed,
\* segmentation never on one whose normalization failed, and no raster a
\* failed scene wrote is read by a later stage.
C3_FailedScenesExcluded ==
    /\ attempted.albedo \cap failed.minnaert = {}
    /\ attempted.shadow \cap failed.albedo = {}
    /\ attempted.albedo \cap level1.partial = {}

ConfigInvalid ==
    config.minnaert # "ok" \/ config.albedo # "ok" \/ config.shadow # "ok"

\* C4: a missing or out-of-range constant halts the run at its start: no
\* scene is processed by any stage, no output raster is written, and the run
\* does not complete.
C4_InvalidConfigHaltsAtStart ==
    ConfigInvalid =>
        /\ attempted = NoScenes
        /\ level1 = NoRasters
        /\ pc # "done"

\* The scenes a table or log lists, in the order of its lines.
ScenesOf(log) == [i \in DOMAIN log |-> log[i][1]]

InStemOrder(rows) ==
    \A i, j \in DOMAIN rows : i < j => TextLess(StemText(rows[i]), StemText(rows[j]))

InNameOrder(rows, suffix) ==
    \A i, j \in DOMAIN rows : i < j => NameLess(rows[i], rows[j], suffix)

StemsResolvable ==
    /\ original_tif \in catalog
    /\ \A i \in DOMAIN error_log : error_log[i][2] = "KeyError"

\* C20: in each process mode every selected image stem has been corrected by
\* the Minnaert stage, from the catalog that has its row, before
\* normalization is attempted on it, and the run is not ended by
\* normalization failing to find the stem's reflectance raster.
C20_SelectedStemsCorrectedFirst ==
    StemsResolvable =>
        /\ \A s \in attempted.albedo : s \in Range(qc_rows)
        /\ ~(pc = "failed" /\ failure.stage = "albedo" /\ failure.scene \notin level1.ifs)

-----------------------------------------------------------------------------
(* Claims about the radiometric arithmetic (SpecCorrect) *)

BelowDarkEverywhere == \A i \in DOMAIN dn : dn[i] < corrector.dark

\* C15: for a raw raster whose DN is below dark_current at every pixel, the
\* radiance is 0 at every pixel and the reflectance written is 0 at every
\* pixel, for any k and any angles.
C15_BelowDarkGivesZero ==
    BelowDarkEverywhere =>
        /\ \A i \in DOMAIN radiance : radiance[i] = Zero
        /\ \A i \in DOMAIN arr_if : arr_if[i] = Zero

-----------------------------------------------------------------------------
(* Claims about normalization (SpecNormalize) *)

\* The raster read is a reflectance raster, finite and non-negative at every
\* pixel, and is not all-zero.
NonDegenerate ==
    /\ \A i \in DOMAIN reflectance : IsFinite(reflectance[i]) /\ ~FLess(reflectance[i], Zero)
    /\ \E i \in DOMAIN reflectance : reflectance[i] # Zero

Tolerance == Fraction(1, 10000)

\* |x - y| <= eps, false when either is not finite
Within(x, y, eps) ==
    /\ IsFinite(x) /\ IsFinite(y)
    /\ ~FLess(FAdd(y, eps), x)
    /\ ~FLess(FAdd(x, eps), y)

C17_NormalizedAlwaysFinite ==
    reflectance = Sanitized(reflectance) =>
        \A i \in DOMAIN arr_norm : IsFinite(arr_norm[i])

-----------------------------------------------------------------------------
(* Claims about shadow segmentation (SpecShadow) *)

BranchTaken == IF steps = <<>> THEN "none" ELSE steps[1].step

\* C11: for a scene with sun_elevation < sun_el_threshold, whatever the
\* raster's dimensions and the iteration count, the mask after cleanup is
\* true at every pixel and the recorded coverage is 100.0.
C11_LowSunMaskAllTrue ==
    (seg_pc = "done" /\ BranchTaken = "low_sun") =>
        /\ mask = Pixels(profile)
        /\ \A p \in Pixels(profile) : out_mask[p] = 1
        /\ shadow_pct = Fraction(100, 1)

\* C12: in the adaptive branch the mask handed to cleanup holds a pixel
\* exactly when its value is below abs_if_threshold or below
\* threshold_factor * mean_valid, mean_valid being the mean of exactly the
\* pixels with value >= min_if_valid; with no such pixel the mean counts as 0.
C12_AdaptiveMaskUnionOfThresholds ==
    BranchTaken = "adaptive" =>
        LET valid == { p \in DOMAIN albnorm : albnorm[p] >= shadow_config.min_if_valid }
            count == Cardinality(valid)
            total == Total(albnorm, valid)
            factor == shadow_config.threshold_factor
        IN thresholded =
              { p \in DOMAIN albnorm :
                  \/ albnorm[p] < shadow_config.abs_if_threshold
                  \/ valid # {} /\ albnorm[p] * factor.den * count < factor.num * total
                  \/ valid = {} /\ albnorm[p] < 0 }

\* An adaptive mask with a pixel too dark to count toward the mean, a pixel
\* that only the relative threshold marks, and a pixel left unmarked.
C12_Witness ==
    /\ BranchTaken = "adaptive"
    /\ \E p \in DOMAIN albnorm : albnorm[p] < shadow_config.min_if_valid
    /\ \E p \in thresholded : albnorm[p] >= shadow_config.abs_if_threshold
    /\ thresholded # DOMAIN albnorm

\* C13: the mask written for a scene has the dimensions of the normalized
\* raster it was derived from, and each of its values is 0 or 1.
C13_MaskBinarySameShape ==
    seg_pc = "done" =>
        /\ DOMAIN out_mask = DOMAIN albnorm
        /\ \A p \in DOMAIN out_mask : out_mask[p] \in {0, 1}

\* A written mask of several pixels holding both values.
C13_Witness ==
    /\ seg_pc = "done"
    /\ \E p, q \in DOMAIN out_mask : out_mask[p] = 0 /\ out_mask[q] = 1

\* The metadata table has no usable sun elevation for the scene: no row, or
\* a row whose sun_elevation column is empty.
SunElevationUnavailable == ~sun_row.present \/ ~IsNumeric(sun_row.sun_elevation)

\* C14: when the scene's sun elevation is unavailable, segmentation does not
\* fail: 45 is substituted and the scene goes through the adaptive branch,
\* not the low-sun branch.
C14_MissingSunElevationDefaults ==
    SunElevationUnavailable =>
        /\ seg_pc # "failed"
        /\ BranchTaken # "none" => (sun_elev = 45 /\ BranchTaken = "adaptive")

IsPrefix(s, r) == Len(s) <= Len(r) /\ \A i \in DOMAIN s : s[i] = r[i]

\* The steps of one scene that took the given branch.
StepsAfter(branch) ==
    << [step |-> branch, iterations |-> 0],
       [step |-> "opening", iterations |-> shadow_config.morph_iters],
       [step |-> "closing", iterations |-> shadow_config.morph_iters],
       [step |-> "write", iterations |-> 0],
       [step |-> "coverage", iterations |-> 0] >>

\* C19: a scene takes exactly one of the two branches, then opening, then
\* closing with the same structuring element and iteration count, and only
\* then is the mask written and its coverage computed; the mask written is the
\* closing of the opening of the branch's mask.
C19_OpeningThenClosing ==
    /\ \/ steps = <<>>
       \/ \E branch \in {"low_sun", "adaptive"} : IsPrefix(steps, StepsAfter(branch))
    /\ seg_pc \in {"closed", "done"} =>
          LET n == shadow_config.morph_iters
              opened == binary_dilation(binary_erosion(thresholded, profile, n), profile, n)
          IN mask = binary_erosion(binary_dilation(opened, profile, n), profile, n)
    /\ seg_pc = "done" =>
          /\ \A p \in Pixels(profile) : (out_mask[p] = 1) <=> (p \in mask)
          /\ shadow_pct = Fraction(100 * Cardinality(mask), Cardinality(Pixels(profile)))

\* A finished scene whose cleanup removed some but not all of the pixels the
\* adaptive branch had marked.
C19_Witness ==
    /\ seg_pc = "done"
    /\ BranchTaken = "adaptive"
    /\ mask # thresholded
    /\ mask # {}

-----------------------------------------------------------------------------
(* Claims about log handles and the albedo QC table (Spec), and about the   *)
(* interpolation step (SpecSeries)                                           *)

\* C21: the log handle a stage opens is closed on every exit path of its
\* run: once the correction run has ended, normally or with an exception,
\* the corrector's handle is not open, and once the conversion run has ended
\* the converter's handle is not open.
C21_LogHandlesClosedAfterRun ==
    /\ pc # "correcting" => ~logs_open
    /\ pc # "stage" => log_file # "open"

Least(v, w) == IF v < w THEN v ELSE w
Greatest(v, w) == IF v < w THEN w ELSE v

\* C22: interp_angle never divides by zero: on any non-empty series, sorted
\* or not, with or without repeated timestamps, it raises nothing, and when
\* it reaches the interpolation step the pair it chose has
\* t0 < query time <= t1, so t1 - t0 > 0, and the value returned lies between
\* v0 and v1 inclusive.
C22_InterpolationPairBracketsQuery ==
    interp # NoResult =>
        /\ ~interp.exc
        /\ LET idx == bisect_left(times, image_time)
           IN (0 < idx /\ idx < Len(times)) =>
                 /\ times[idx] < image_time
                 /\ image_time <= times[idx + 1]
                 /\ times[idx + 1] - times[idx] > 0
                 /\ interp.den > 0
                 /\ Least(values[idx], values[idx + 1]) * interp.den <= interp.num
                 /\ interp.num <= Greatest(values[idx], values[idx + 1]) * interp.den

\* An interpolation on a series that is out of order and repeats a timestamp,
\* between two samples of different value.
C22_Witness ==
    /\ interp # NoResult
    /\ ~IsSorted(times)
    /\ \E i, j \in DOMAIN times : i # j /\ times[i] = times[j]
    /\ LET idx == bisect_left(times, image_time)
       IN /\ 0 < idx /\ idx < Len(times)
          /\ values[idx] # values[idx + 1]
          /\ image_time < times[idx + 1]

\* C23: after a run that normalized several scenes the albedo QC CSV holds
\* one row for every scene normalized in the run; a later scene's
\* normalization does not remove an earlier scene's row.
C23_QcRowForEveryNormalizedScene ==
    Range(albedo_qc) = level1.albnorms

=============================================================================
